---- MODULE Spec2Model ----
(***************************************************************************)
(* Model of the pin manager (shared/lib/pin_manager.py) and of the ADS1118 *)
(* driver built on it (shared/drivers/ads1118.py).                         *)
(*                                                                         *)
(* The registry state is the PinManager's two dictionaries, the heap of    *)
(* ManagedDevice objects, and the hardware layer underneath (how many live *)
(* CircuitPython objects are bound to each pin).                           *)
(***************************************************************************)
EXTENDS Integers, Sequences, FiniteSets, TLC

\* ---- bounds -------------------------------------------------------------
MaxContexts == 2
NumHandles == 2
NumTasks == 1

\* ---- values -------------------------------------------------------------
\* the ADC pins of the EPS flatsat pinout
Pins == {"SCK", "MOSI", "MISO", "SS"}

\* Python's None as the value of an _instance field
None == 0

\* the exceptions the pin manager can end with
NoError == "ok"
ResourceBusy == "RuntimeError"
NoneDeinit == "AttributeError"

\* device_type arguments handed to _create_general_device
DigitalInOutType == [cls |-> "DigitalInOut", frequency |-> 0]
SpiType == [cls |-> "SPI", frequency |-> 0]
AnalogInType == [cls |-> "AnalogIn", frequency |-> 0]
I2cType(frequency) == [cls |-> "I2C", frequency |-> frequency]

\* inputs of the four creation methods
DigitalPins == {"MISO"}
AnalogPins == {"MISO"}
SpiArgs == {<<"SCK", "MOSI", "MISO">>}
I2cArgs == {<<"SCK", "MOSI", 100000>>}

VARIABLES
    pins,      \* PinManager._pins: registered pin -> claimer of its _ManagedPin
    devices,   \* PinManager._devices: device key -> ManagedDevice object (id)
    objs,      \* the ManagedDevice objects, by id
    hw,        \* hardware layer: number of live bindings on each pin
    serial,    \* handles the device producers have handed out (mod NumHandles)
    scopes,    \* per device: with-scopes the application currently has open
    last,      \* the operation that produced this state, and its outcome
    adc,       \* the Ads1118 object: its spi_bus, drdy_gpio and ss_gpio
    pc,        \* per task: where its take_sample call stands
    held,      \* per task: the devices its current with statement has entered
    args,      \* per task: channel, input_range, sample_rate of the call
    data_ready, \* per task: the data_ready local of take_sample
    transmit_buffer, \* per task: the transmit_buffer local of take_sample
    receive_buffer,  \* per task: the receive_buffer local of take_sample
    cs,        \* the level last written to the chip-select pin (ss.value)
    wire,      \* the task whose bytes the ADC received last, where observed
    fn_in,     \* arguments of a call of one of the static methods of Ads1118
    fn_out     \* what that call returned or raised

regvars == <<pins, devices, objs, hw, serial>>
codecvars == <<fn_in, fn_out>>
adsvars == <<adc, pc, held, args, data_ready, transmit_buffer, receive_buffer,
             cs, wire, fn_in, fn_out>>
vars == <<pins, devices, objs, hw, serial, scopes, last, adc, pc, held, args,
          data_ready, transmit_buffer, receive_buffer, cs, wire, fn_in,
          fn_out>>

Tasks == 1 .. NumTasks

\* ---- helpers ------------------------------------------------------------
Range(f) == {f[i] : i \in DOMAIN f}

Occurrences(seq, x) == Cardinality({i \in DOMAIN seq : seq[i] = x})

DeviceIds(s) == DOMAIN s.objs

\* the registry as one value, so that the methods are operators on it
\* (peak: 1 once the running method has constructed a hardware object, 2
\* once it has constructed one on a pin that had a live one)
Registry == [pins |-> pins, devices |-> devices, objs |-> objs, hw |-> hw,
             serial |-> serial, peak |-> 0]

EmptyRegistry == [pins |-> <<>>, devices |-> <<>>, objs |-> <<>>,
                  hw |-> [p \in Pins |-> 0], serial |-> 0, peak |-> 0]

DefaultClaimer(inst) == [kind |-> "default", id |-> 0, instance |-> inst]
DeviceClaimer(d) == [kind |-> "device", id |-> d, instance |-> None]

SetClaimer(s, p, c) ==
    [s EXCEPT !.pins = [q \in (DOMAIN s.pins) \cup {p} |->
                            IF q = p THEN c ELSE s.pins[q]]]

\* digitalio.DigitalInOut(pin), busio.SPI(...), ...: one more live binding
\* on every pin the object is built on
HwBind(s, pinseq) ==
    [s EXCEPT
        !.peak = IF \E p \in Range(pinseq) : s.hw[p] > 0 THEN 2
                 ELSE IF @ > 1 THEN @ ELSE 1,
        !.hw = [p \in Pins |-> @[p] + Occurrences(pinseq, p)]]

\* <object>.deinit(): the object's pins are released
HwDeinit(s, pinseq) ==
    [s EXCEPT !.hw = [p \in Pins |-> s.hw[p] - Occurrences(pinseq, p)]]

\* ---- _DefaultPinClaimer -------------------------------------------------
\* _DefaultPinClaimer(m_pin), assigned to m_pin.claimer
NewDefaultPinClaimer(s, p) ==
    SetClaimer(HwBind(s, <<p>>), p, DefaultClaimer(1))

DefaultIsRunning(s, p) == s.pins[p].instance # None

\* variant of DefaultReclaim: the object is dropped without deinit()
DefaultReclaimNoDeinit(s, p) ==
    [s |-> SetClaimer(s, p, DefaultClaimer(None)), err |-> NoError]

DefaultReclaim(s, p) ==
    IF s.pins[p].instance # None
    THEN [s |-> SetClaimer(HwDeinit(s, <<p>>), p, DefaultClaimer(None)),
          err |-> NoError]
    ELSE [s |-> s, err |-> NoError]

\* ---- ManagedDevice ------------------------------------------------------
NewManagedDevice(m_pins) ==
    [managed_pins |-> m_pins, instance |-> None, active_contexts |-> 0]

IsRunning(s, d) == s.objs[d].instance # None

IsBusy(s, d) == s.objs[d].active_contexts # 0

\* variant of ResetClaimers: the pins keep the claimer they have
KeepClaimers(s, m_pins, i) == s

RECURSIVE ResetClaimers(_, _, _)
ResetClaimers(s, m_pins, i) ==
    IF i > Len(m_pins) THEN s
    ELSE ResetClaimers(NewDefaultPinClaimer(s, m_pins[i]), m_pins, i + 1)

\* variant of Reclaim: no check of active_contexts
ReclaimUnchecked(s, d) ==
    IF s.objs[d].instance = None
    THEN [s |-> s, err |-> NoneDeinit]
    ELSE LET m_pins == s.objs[d].managed_pins
             s1 == HwDeinit(s, m_pins)
             s2 == [s1 EXCEPT !.objs[d].instance = None]
         IN [s |-> ResetClaimers(s2, m_pins, 1), err |-> NoError]

\* variant of Reclaim: the instance is deinitialised but kept
ReclaimKeepInstance(s, d) ==
    IF s.objs[d].active_contexts # 0
    THEN [s |-> s, err |-> ResourceBusy]
    ELSE IF s.objs[d].instance = None
    THEN [s |-> s, err |-> NoneDeinit]
    ELSE LET m_pins == s.objs[d].managed_pins
         IN [s |-> ResetClaimers(HwDeinit(s, m_pins), m_pins, 1),
             err |-> NoError]

Reclaim(s, d) ==
    IF s.objs[d].active_contexts # 0
    THEN [s |-> s, err |-> ResourceBusy]
    ELSE IF s.objs[d].instance = None
    THEN [s |-> s, err |-> NoneDeinit]
    ELSE LET m_pins == s.objs[d].managed_pins
             s1 == HwDeinit(s, m_pins)
             s2 == [s1 EXCEPT !.objs[d].instance = None]
         IN [s |-> ResetClaimers(s2, m_pins, 1), err |-> NoError]

\* m_pin.claimer.is_running() and m_pin.claimer._reclaim(), dispatched on
\* the class of the claimer
ClaimerIsRunning(s, p) ==
    IF s.pins[p].kind = "device" THEN IsRunning(s, s.pins[p].id)
    ELSE DefaultIsRunning(s, p)

ClaimerReclaim(s, p) ==
    IF s.pins[p].kind = "device" THEN Reclaim(s, s.pins[p].id)
    ELSE DefaultReclaim(s, p)

\* first loop of __enter__: reclaim the claimers that are running
RECURSIVE ReclaimRunning(_, _, _)
ReclaimRunning(s, m_pins, i) ==
    IF i > Len(m_pins) THEN [s |-> s, err |-> NoError]
    ELSE IF ClaimerIsRunning(s, m_pins[i])
    THEN LET r == ClaimerReclaim(s, m_pins[i])
         IN IF r.err # NoError THEN r
            ELSE ReclaimRunning(r.s, m_pins, i + 1)
    ELSE ReclaimRunning(s, m_pins, i + 1)

\* second loop of __enter__: reclaim every claimer
RECURSIVE ReclaimAll(_, _, _)
ReclaimAll(s, m_pins, i) ==
    IF i > Len(m_pins) THEN [s |-> s, err |-> NoError]
    ELSE LET r == ClaimerReclaim(s, m_pins[i])
         IN IF r.err # NoError THEN r
            ELSE ReclaimAll(r.s, m_pins, i + 1)

\* variant of ClaimPins: only the first pin gets the device as claimer
ClaimFirstPin(s, d, m_pins, i) ==
    IF i > Len(m_pins) THEN s
    ELSE SetClaimer(s, m_pins[i], DeviceClaimer(d))

RECURSIVE ClaimPins(_, _, _, _)
ClaimPins(s, d, m_pins, i) ==
    IF i > Len(m_pins) THEN s
    ELSE ClaimPins(SetClaimer(s, m_pins[i], DeviceClaimer(d)), d, m_pins, i + 1)

\* self._device_producer(): a new hardware object on the device's pins
Produce(s, d) ==
    LET h == s.serial + 1
        s1 == HwBind(s, s.objs[d].managed_pins)
    IN [s1 EXCEPT !.objs[d].instance = h,
                  !.serial = h % NumHandles]

\* variant of Reenter: the producer is invoked again
ReenterRebuild(s, d) ==
    LET s1 == Produce(s, d)
    IN [s |-> [s1 EXCEPT !.objs[d].active_contexts = @ + 1],
        err |-> NoError, ret |-> s1.objs[d].instance, produced |-> 1]

\* __enter__ on a device that is running (lines 107-109)
Reenter(s, d) ==
    [s |-> [s EXCEPT !.objs[d].active_contexts = @ + 1],
     err |-> NoError, ret |-> s.objs[d].instance, produced |-> 0]

\* __enter__ on a device that is not running (lines 110-120)
Acquire(s, d) ==
    LET m_pins == s.objs[d].managed_pins
        r1 == ReclaimRunning(s, m_pins, 1)
    IN IF r1.err # NoError
       THEN [s |-> r1.s, err |-> r1.err, ret |-> None, produced |-> 0]
       ELSE LET r2 == ReclaimAll(r1.s, m_pins, 1)
            IN IF r2.err # NoError
               THEN [s |-> r2.s, err |-> r2.err, ret |-> None, produced |-> 0]
               ELSE LET s3 == Produce(r2.s, d)
                        s4 == ClaimPins(s3, d, m_pins, 1)
                        s5 == [s4 EXCEPT !.objs[d].active_contexts = @ + 1]
                    IN [s |-> s5, err |-> NoError,
                        ret |-> s5.objs[d].instance, produced |-> 1]

Enter(s, d) ==
    IF s.objs[d].instance # None THEN Reenter(s, d) ELSE Acquire(s, d)

\* variant of Exit: the count is cleared
ExitToZero(s, d) == [s EXCEPT !.objs[d].active_contexts = 0]

\* variant of Exit: the device is torn down when its last context closes
ExitEager(s, d) ==
    LET s1 == [s EXCEPT !.objs[d].active_contexts = @ - 1]
    IN IF s1.objs[d].active_contexts = 0 THEN Reclaim(s1, d).s ELSE s1

Exit(s, d) == [s EXCEPT !.objs[d].active_contexts = @ - 1]

\* ---- PinManager ---------------------------------------------------------
\* variant of GetPinReference: a new _ManagedPin on every reference
GetPinReferenceFresh(s, pin) == NewDefaultPinClaimer(s, pin)

GetPinReference(s, pin) ==
    IF pin \notin DOMAIN s.pins THEN NewDefaultPinClaimer(s, pin) ELSE s

RECURSIVE GetPinReferences(_, _, _)
GetPinReferences(s, pinseq, i) ==
    IF i > Len(pinseq) THEN s
    ELSE GetPinReferences(GetPinReference(s, pinseq[i]), pinseq, i + 1)

DeviceKey(m_pins, device_type) == [m_pins |-> m_pins, device_type |-> device_type]

\* variant of CreateGeneralDevice: no look-up in the cache
CreateGeneralDeviceUncached(s, pinseq, device_type) ==
    LET s1 == GetPinReferences(s, pinseq, 1)
        d == Len(s1.objs) + 1
    IN [s |-> [s1 EXCEPT
                 !.devices = (DeviceKey(pinseq, device_type) :> d) @@ s1.devices,
                 !.objs = Append(s1.objs, NewManagedDevice(pinseq))],
        ret |-> d]

CreateGeneralDevice(s, pinseq, device_type) ==
    LET s1 == GetPinReferences(s, pinseq, 1)
        device_key == DeviceKey(pinseq, device_type)
    IN IF device_key \notin DOMAIN s1.devices
       THEN LET d == Len(s1.objs) + 1
            IN [s |-> [s1 EXCEPT
                         !.devices = (device_key :> d) @@ s1.devices,
                         !.objs = Append(s1.objs, NewManagedDevice(pinseq))],
                ret |-> d]
       ELSE [s |-> s1, ret |-> s1.devices[device_key]]

\* ---- the operation record ------------------------------------------------
NoKey == DeviceKey(<<>>, [cls |-> "", frequency |-> 0])

\* the devices whose instance an operation has torn down
TornDown(s, t) == {d \in DOMAIN s.objs : IsRunning(s, d) /\ ~IsRunning(t, d)}

\* what a step did on the bus: the bytes sent and received, the clock
\* readings and the ready time of a poll phase with the number of reads of
\* the ready line, the value returned to the caller
NoIo == [tx |-> <<>>, rx |-> <<>>, ticks |-> <<>>, ready_at |-> 0,
         reads |-> 0, result |-> <<>>]

Outcome(op, d, key, err, ret, produced, torn) ==
    [op |-> op, dev |-> d, key |-> key, err |-> err, ret |-> ret,
     produced |-> produced, torn |-> torn, io |-> NoIo, peak |-> 0]

\* the outcome of a method that has left the registry as s
RegistryOutcome(s, op, d, key, err, ret, produced, torn) ==
    [Outcome(op, d, key, err, ret, produced, torn) EXCEPT !.peak = s.peak]

BusOutcome(op, err, io) ==
    [Outcome(op, 0, NoKey, err, None, 0, {}) EXCEPT !.io = io]

\* ---- Python values and integer operators ---------------------------------
\* an argument as the caller passes it: an int, a float (val counts halves,
\* so 4.5 is PyFloat(9)) or some other object
PyInt(n) == [type |-> "int", val |-> n]
PyFloat(halves) == [type |-> "float", val |-> halves]
PyObject == [type |-> "object", val |-> 0]

\* isinstance(x, int)
IsInstanceInt(x) == x.type = "int"

\* x is n, for a small int n
PyIs(x, n) == x.type = "int" /\ x.val = n

\* x >= n and x < n, for an int or a float x and an int n
PyGe(x, n) == IF x.type = "float" THEN x.val >= 2 * n ELSE x.val >= n
PyLt(x, n) == IF x.type = "float" THEN x.val < 2 * n ELSE x.val < n

RECURSIVE Pow2(_)
Pow2(n) == IF n = 0 THEN 1 ELSE 2 * Pow2(n - 1)

AssertionError == "AssertionError"
KeyError == "KeyError"
IoError == "OSError"

\* a & b and a | b on non-negative ints
RECURSIVE BitAnd(_, _)
BitAnd(a, b) ==
    IF a = 0 \/ b = 0 THEN 0
    ELSE (a % 2) * (b % 2) + 2 * BitAnd(a \div 2, b \div 2)

RECURSIVE BitOr(_, _)
BitOr(a, b) ==
    IF a = 0 THEN b
    ELSE IF b = 0 THEN a
    ELSE (IF a % 2 = 1 \/ b % 2 = 1 THEN 1 ELSE 0)
         + 2 * BitOr(a \div 2, b \div 2)

\* a << n
ShiftLeft(a, n) == a * Pow2(n)

\* variant of ShiftRight: rounds towards zero
ShiftRightTruncate(a, n) ==
    IF a < 0 THEN 0 - ((0 - a) \div Pow2(n)) ELSE a \div Pow2(n)

\* a >> n, which rounds towards minus infinity
ShiftRight(a, n) == a \div Pow2(n)

\* ---- Ads1118 -------------------------------------------------------------
MuxTemperature == 255

\* ADS1118_LSB_SIZES: key -> LSB size in volts, as a multiple of 1/LsbDen
LsbDen == 64000000

\* variant of LsbSizes: the last LSB size is that of the range before it
LsbSizesRepeated == [k \in 0 .. 5 |->
                        CASE k = 0 -> 12000
                          [] k = 1 -> 8000
                          [] k = 2 -> 4000
                          [] k = 3 -> 2000
                          [] k = 4 -> 1000
                          [] k = 5 -> 1000]

LsbSizes == [k \in 0 .. 5 |->
                CASE k = 0 -> 12000
                  [] k = 1 -> 8000
                  [] k = 2 -> 4000
                  [] k = 3 -> 2000
                  [] k = 4 -> 1000
                  [] k = 5 -> 500]

\* the keys of ADS1118_LSB_SIZES
LsbSizeKeys == DOMAIN LsbSizes

\* 0.03125, the factor of _temperature_from_bytes, is 1/TemperatureDen
TemperatureDen == 32

\* ADS1118_SPI_RESET_TIME, 0.030, as ResetTimeNum/ResetTimeDen
ResetTimeNum == 3
ResetTimeDen == 100

\* variant of CheckChannelParam: no exception for the temperature channel
CheckChannelParamNoSentinel(channel) ==
    IsInstanceInt(channel) /\ PyGe(channel, 0) /\ PyLt(channel, 8)

CheckChannelParam(channel) ==
    \/ PyIs(channel, MuxTemperature)
    \/ (IsInstanceInt(channel) /\ PyGe(channel, 0) /\ PyLt(channel, 8))

\* variant of CheckFsrParam: the upper limit is one too high
CheckFsrParamLoose(input_range) ==
    IsInstanceInt(input_range) /\ PyGe(input_range, 0) /\ PyLt(input_range, 9)

CheckFsrParam(input_range) ==
    IsInstanceInt(input_range) /\ PyGe(input_range, 0) /\ PyLt(input_range, 8)

CheckSpsParam(sample_rate) ==
    IsInstanceInt(sample_rate) /\ PyGe(sample_rate, 0) /\ PyLt(sample_rate, 8)

CheckSamplingParams(channel, input_range, sample_rate) ==
    /\ CheckChannelParam(channel)
    /\ CheckFsrParam(input_range)
    /\ CheckSpsParam(sample_rate)

\* variant of BuildConfigRegisterBytearray: the temperature flag is left out
BuildConfigRegisterNoFlag(channel, input_range, sample_rate) ==
    << BitOr(BitOr(BitOr(ShiftLeft(1, 7),
                         ShiftLeft(BitAnd(channel, 7), 4)),
                   ShiftLeft(BitAnd(input_range, 7), 1)),
             1),
       BitOr(ShiftLeft(BitAnd(sample_rate, 7), 5), 10) >>

\* _build_config_register_bytearray on ints
BuildConfigRegisterBytearray(channel, input_range, sample_rate) ==
    << BitOr(BitOr(BitOr(ShiftLeft(1, 7),
                         ShiftLeft(BitAnd(channel, 7), 4)),
                   ShiftLeft(BitAnd(input_range, 7), 1)),
             1),
       BitOr(BitOr(ShiftLeft(BitAnd(sample_rate, 7), 5),
                   ShiftLeft(IF channel = MuxTemperature THEN 1 ELSE 0, 4)),
             10) >>

\* variant of IntFromTwoBytesSignedBe: the sign bit is not looked at
IntFromTwoBytesUnsignedBe(buffer) == 256 * buffer[1] + buffer[2]

IntFromTwoBytesSignedBe(buffer) ==
    (IF BitAnd(buffer[1], 128) # 0 THEN 0 - 65536 ELSE 0)
    + 256 * buffer[1] + buffer[2]

\* a float result as <<numerator, denominator>>
TemperatureFromBytes(buffer) ==
    LET reading == ShiftRight(IntFromTwoBytesSignedBe(buffer), 2)
    IN <<reading, TemperatureDen>>

\* ADS1118_LSB_SIZES[fsr] raises KeyError for a key that is missing
VoltageFromBytes(buffer, fsr) ==
    IF fsr \in DOMAIN LsbSizes
    THEN [err |-> NoError,
          value |-> <<IntFromTwoBytesSignedBe(buffer) * LsbSizes[fsr],
                      LsbDen>>]
    ELSE [err |-> KeyError, value |-> <<>>]

Py(channel, input_range, sample_rate) ==
    [channel |-> channel, input_range |-> input_range,
     sample_rate |-> sample_rate]

\* calls of take_sample: a voltage channel, the temperature sensor, and a
\* channel outside the domain
SampleArgs ==
    { Py(PyInt(4), PyInt(1), PyInt(4)),
      Py(PyInt(MuxTemperature), PyInt(1), PyInt(4)),
      Py(PyInt(8), PyInt(1), PyInt(4)) }

NoArgs == Py(PyInt(0), PyInt(0), PyInt(0))

NoBuffer == <<>>

\* a call of a static method: its name and arguments, and its outcome
CodecInput(kind, a, buffer) == [kind |-> kind, args |-> a, buffer |-> buffer]

NoInput == CodecInput("none", NoArgs, NoBuffer)

CodecOutput(fn, err, value) == [fn |-> fn, err |-> err, value |-> value]

NoOutput == CodecOutput("none", NoError, <<>>)

NoAdc == [spi_bus |-> 0, drdy_gpio |-> 0, ss_gpio |-> 0]

\* Ads1118.__init__
AdsConstruct(s, sck, mosi, miso, ss) ==
    LET r1 == CreateGeneralDevice(s, <<sck, mosi, miso>>, SpiType)
        r2 == CreateGeneralDevice(r1.s, <<miso>>, DigitalInOutType)
        r3 == CreateGeneralDevice(r2.s, <<ss>>, DigitalInOutType)
        e == Enter(r3.s, r3.ret)
    IN [s |-> IF e.err = NoError THEN Exit(e.s, r3.ret) ELSE e.s,
        adc |-> [spi_bus |-> r1.ret, drdy_gpio |-> r2.ret, ss_gpio |-> r3.ret],
        err |-> e.err]

\* variant of ExitScopes: the managers are left without __exit__
ExitNone(s, stack) == [s |-> s, held |-> <<>>]

\* variant of ExitScopes: only the innermost manager is exited
ExitInnermost(s, stack) ==
    IF stack = <<>> THEN [s |-> s, held |-> <<>>]
    ELSE [s |-> Exit(s, stack[Len(stack)]),
          held |-> SubSeq(stack, 1, Len(stack) - 1)]

\* leaving a with statement, normally or by an exception: __exit__ of every
\* context manager that was entered, innermost first
RECURSIVE ExitScopes(_, _)
ExitScopes(s, stack) ==
    IF stack = <<>> THEN [s |-> s, held |-> <<>>]
    ELSE ExitScopes(Exit(s, stack[Len(stack)]),
                    SubSeq(stack, 1, Len(stack) - 1))

\* ---- state machine ------------------------------------------------------
Store(s) ==
    /\ pins' = s.pins
    /\ devices' = s.devices
    /\ objs' = s.objs
    /\ hw' = s.hw
    /\ serial' = s.serial

\* a task is suspended (or not in a call) at these places; anywhere else it
\* is the one task running
SuspendedAt == {"idle", "sleep", "done", "raised"}

Quiescent == \A t \in DOMAIN pc : pc[t] \in SuspendedAt

OthersSuspended(t) == \A u \in DOMAIN pc \ {t} : pc[u] \in SuspendedAt

Init ==
    /\ pins = EmptyRegistry.pins
    /\ devices = EmptyRegistry.devices
    /\ objs = EmptyRegistry.objs
    /\ hw = EmptyRegistry.hw
    /\ serial = EmptyRegistry.serial
    /\ scopes = <<>>
    /\ last = Outcome("init", 0, NoKey, NoError, None, 0, {})
    /\ adc = NoAdc
    /\ pc = [t \in Tasks |-> "idle"]
    /\ held = [t \in Tasks |-> <<>>]
    /\ args = [t \in Tasks |-> NoArgs]
    /\ data_ready = [t \in Tasks |-> FALSE]
    /\ transmit_buffer = [t \in Tasks |-> NoBuffer]
    /\ receive_buffer = [t \in Tasks |-> NoBuffer]
    /\ cs = TRUE
    /\ wire = 0
    /\ fn_in = NoInput
    /\ fn_out = NoOutput

\* a creation call
Create(pinseq, device_type) ==
    LET r == CreateGeneralDevice(Registry, pinseq, device_type)
    IN /\ Quiescent
       /\ Store(r.s)
       /\ scopes' = [d \in DOMAIN r.s.objs |->
                        IF d \in DOMAIN scopes THEN scopes[d] ELSE 0]
       /\ last' = RegistryOutcome(r.s, "create", r.ret,
                                  DeviceKey(pinseq, device_type),
                                  NoError, r.ret, 0, {})
       /\ UNCHANGED adsvars

CreateDigitalInOut ==
    \E pin \in DigitalPins : Create(<<pin>>, DigitalInOutType)

CreateSpi ==
    \E a \in SpiArgs : Create(<<a[1], a[2], a[3]>>, SpiType)

CreateI2c ==
    \E a \in I2cArgs : Create(<<a[1], a[2]>>, I2cType(a[3]))

CreateAnalogIn ==
    \E pin \in AnalogPins : Create(<<pin>>, AnalogInType)

\* application code outside take_sample: "with dev as x:" reaching __enter__
DeviceEnter ==
    \E d \in DOMAIN objs :
        LET r == Enter(Registry, d)
        IN /\ Quiescent
           /\ objs[d].active_contexts < MaxContexts
           /\ Store(r.s)
           /\ scopes' = IF r.err = NoError
                        THEN [scopes EXCEPT ![d] = @ + 1] ELSE scopes
           /\ last' = RegistryOutcome(r.s, "enter", d, NoKey, r.err, r.ret,
                                      r.produced, TornDown(Registry, r.s))
           /\ UNCHANGED adsvars

\* application code outside take_sample: the end of a with block
DeviceExit ==
    \E d \in DOMAIN objs :
        /\ Quiescent
        /\ scopes[d] > 0
        /\ Store(Exit(Registry, d))
        /\ scopes' = [scopes EXCEPT ![d] = @ - 1]
        /\ last' = Outcome("exit", d, NoKey, NoError, None, 0, {})
        /\ UNCHANGED adsvars

Next ==
    \/ CreateDigitalInOut
    \/ CreateSpi
    \/ CreateI2c
    \/ CreateAnalogIn
    \/ DeviceEnter
    \/ DeviceExit

Spec == Init /\ [][Next]_vars

\* ---- _reclaim() called on a device by itself ------------------------------
\* dev._reclaim(), as __enter__ of a contending device calls it on a claimer
DeviceReclaim ==
    \E d \in DOMAIN objs :
        LET r == Reclaim(Registry, d)
        IN /\ Quiescent
           /\ Store(r.s)
           /\ last' = RegistryOutcome(r.s, "reclaim", d, NoKey, r.err, None,
                                      0, TornDown(Registry, r.s))
           /\ UNCHANGED <<scopes, adsvars>>

NextReclaim ==
    \/ Next
    \/ DeviceReclaim

SpecReclaim == Init /\ [][NextReclaim]_vars

\* ---- take_sample, one action per step between two suspension points ------
Goto(t, label) == pc' = [pc EXCEPT ![t] = label]

\* variant of ClearStartBit: the word is sent again as it is
KeepStartBit(buffer) == buffer

\* line 171: transmit_buffer[0] & 0x7F
ClearStartBit(buffer) == <<BitAnd(buffer[1], 127), buffer[2]>>

\* the device is ready from ready_at nanoseconds into the poll phase on
NeverReady == 0 - 1

DrdyLow(ready_at, elapsed) == ready_at # NeverReady /\ ready_at <= elapsed

\* line 166: (time.monotonic_ns() - t0) < ADS1118_SPI_RESET_TIME, an int of
\* nanoseconds compared with the float 0.030
WithinResetTime(elapsed) ==
    IF elapsed >= ResetTimeNum THEN FALSE
    ELSE elapsed * ResetTimeDen < ResetTimeNum

\* lines 165-168: ticks[k] is time.monotonic_ns() - t0 at the k-th evaluation
\* of the loop condition, and the ready line is read at that time
RECURSIVE PollLoop(_, _, _, _, _)
PollLoop(k, ticks, ready_at, seen, reads) ==
    IF ~seen /\ k <= Len(ticks) /\ WithinResetTime(ticks[k])
    THEN PollLoop(k + 1, ticks, ready_at, DrdyLow(ready_at, ticks[k]),
                  reads + 1)
    ELSE [data_ready |-> seen, reads |-> reads]

\* variant of AfterPoll: a poll phase that saw no ready raises
AfterPollRaise(io_ok, seen) ==
    IF io_ok /\ seen THEN "rb_spi" ELSE "raised"

\* variant of AfterPoll: the read-back follows any poll phase
AfterPollReadBack(io_ok, seen) ==
    IF io_ok THEN "rb_spi" ELSE "raised"

\* lines 140 and 171-172: where the call goes after a poll phase
AfterPoll(io_ok, seen) ==
    IF ~io_ok THEN "raised" ELSE IF seen THEN "rb_spi" ELSE "cfg_spi"

\* take_sample(channel, input_range, sample_rate) starts to run: lines 132-140
TakeSampleCallOn(t, argset) ==
    \E a \in argset :
        /\ pc[t] = "idle"
        /\ Quiescent
        /\ args' = [args EXCEPT ![t] = a]
        /\ IF CheckSamplingParams(a.channel, a.input_range, a.sample_rate)
           THEN /\ Goto(t, "cfg_spi")
                /\ transmit_buffer' =
                       [transmit_buffer EXCEPT ![t] =
                           BuildConfigRegisterBytearray(
                               a.channel.val, a.input_range.val,
                               a.sample_rate.val)]
                /\ receive_buffer' = [receive_buffer EXCEPT ![t] = <<0, 0>>]
                /\ data_ready' = [data_ready EXCEPT ![t] = FALSE]
                /\ last' = Outcome("take_sample", 0, NoKey, NoError, None, 0, {})
           ELSE /\ Goto(t, "raised")
                /\ last' = Outcome("take_sample", 0, NoKey, AssertionError,
                                   None, 0, {})
                /\ UNCHANGED <<transmit_buffer, receive_buffer, data_ready>>
        /\ UNCHANGED <<regvars, scopes, adc, held, cs, wire, codecvars>>

\* one context manager of a with statement: __enter__ of dev; if it raises,
\* the managers entered before it are exited and the exception propagates
WithEnter(t, at, dev, next) ==
    LET r == Enter(Registry, dev)
        u == ExitScopes(r.s, held[t])
    IN /\ pc[t] = at
       /\ IF r.err = NoError
          THEN /\ Store(r.s)
               /\ held' = [held EXCEPT ![t] = Append(@, dev)]
               /\ Goto(t, next)
          ELSE /\ Store(u.s)
               /\ held' = [held EXCEPT ![t] = u.held]
               /\ Goto(t, "raised")
       /\ last' = RegistryOutcome(r.s, at, dev, NoKey, r.err, r.ret,
                                  r.produced, TornDown(Registry, r.s))
       /\ UNCHANGED <<scopes, adc, args, data_ready, transmit_buffer,
                      receive_buffer, cs, wire, codecvars>>

\* the first statements of a with body, up to ss.value = False
Select(t, at, next) ==
    /\ pc[t] = at
    /\ cs' = FALSE
    /\ Goto(t, next)
    /\ last' = Outcome(at, 0, NoKey, NoError, None, 0, {})
    /\ UNCHANGED <<regvars, scopes, adc, held, args, data_ready,
                   transmit_buffer, receive_buffer, wire, codecvars>>

\* the rest of a with body on the bus: write_readinto sends transmit_buffer
\* and fills receive_buffer, then ss.value = True; or write_readinto raises
\* an exception of the hardware layer; either way every manager is exited;
\* sender is what the observer of the wire notes of a completed transfer
WithBusBody(t, at, next, rxset, sender) ==
    \E io_ok \in BOOLEAN, rx \in rxset :
        LET u == ExitScopes(Registry, held[t])
        IN /\ pc[t] = at
           /\ Store(u.s)
           /\ held' = [held EXCEPT ![t] = u.held]
           /\ Goto(t, IF io_ok THEN next ELSE "raised")
           /\ receive_buffer' = IF io_ok
                                THEN [receive_buffer EXCEPT ![t] = rx]
                                ELSE receive_buffer
           /\ cs' = io_ok
           /\ last' = BusOutcome(at, IF io_ok THEN NoError ELSE IoError,
                                 [NoIo EXCEPT !.tx = transmit_buffer[t],
                                              !.rx = IF io_ok THEN rx ELSE <<>>])
           /\ wire' = IF io_ok THEN sender ELSE wire
           /\ UNCHANGED <<scopes, adc, args, data_ready, transmit_buffer,
                          codecvars>>

\* the bytes the device answers with
RxBytes == {<<0, 0>>}

\* lines 143-150
ConfigEnterSpi(t) == WithEnter(t, "cfg_spi", adc.spi_bus, "cfg_ss")
ConfigEnterSs(t) == WithEnter(t, "cfg_ss", adc.ss_gpio, "cfg_sel")
ConfigSelect(t) == Select(t, "cfg_sel", "cfg_body")
ConfigBody(t) == WithBusBody(t, "cfg_body", "sleep", RxBytes, wire)

\* line 153: the sleep is over and the task is scheduled again
Wake(t) ==
    /\ pc[t] = "sleep"
    /\ Quiescent
    /\ Goto(t, "poll_drdy")
    /\ last' = Outcome("wake", 0, NoKey, NoError, None, 0, {})
    /\ UNCHANGED <<regvars, scopes, adc, held, args, data_ready,
                   transmit_buffer, receive_buffer, cs, wire, codecvars>>

\* lines 156-158
PollEnterDrdy(t) == WithEnter(t, "poll_drdy", adc.drdy_gpio, "poll_ss")
PollEnterSs(t) == WithEnter(t, "poll_ss", adc.ss_gpio, "poll_sel")
PollSelect(t) == Select(t, "poll_sel", "poll_body")

\* lines 164-171: the poll loop, ss.value = True, the exits, and after a
\* phase that saw ready the start bit is cleared
PollBodyOn(t, traces, readys) ==
    \E io_ok \in BOOLEAN, ticks \in traces, ready_at \in readys :
        LET u == ExitScopes(Registry, held[t])
            r == PollLoop(1, ticks, ready_at, data_ready[t], 0)
            seen == io_ok /\ r.data_ready
        IN /\ pc[t] = "poll_body"
           /\ Store(u.s)
           /\ held' = [held EXCEPT ![t] = u.held]
           /\ data_ready' = [data_ready EXCEPT ![t] = seen]
           /\ cs' = io_ok
           /\ Goto(t, AfterPoll(io_ok, seen))
           /\ transmit_buffer' =
                  IF AfterPoll(io_ok, seen) = "rb_spi"
                  THEN [transmit_buffer EXCEPT ![t] = ClearStartBit(@)]
                  ELSE transmit_buffer
           /\ last' = BusOutcome("poll_body",
                                 IF io_ok THEN NoError ELSE IoError,
                                 [NoIo EXCEPT !.ticks = ticks,
                                              !.ready_at = ready_at,
                                              !.reads = r.reads])
           /\ UNCHANGED <<scopes, adc, args, receive_buffer, wire, codecvars>>

\* a clock that ticks once in the phase, a device ready at once or never
ClockTraces == {<<0, 30000000>>}

ReadyTimes == {0, NeverReady}

PollBody(t) == PollBodyOn(t, ClockTraces, ReadyTimes)

\* lines 172-179
ReadEnterSpi(t) == WithEnter(t, "rb_spi", adc.spi_bus, "rb_ss")
ReadEnterSs(t) == WithEnter(t, "rb_ss", adc.ss_gpio, "rb_sel")
ReadSelect(t) == Select(t, "rb_sel", "rb_body")
ReadBody(t) == WithBusBody(t, "rb_body", "ret", RxBytes, wire)

\* lines 181-185: the conversion of the reading
Convert(channel, input_range, buffer) ==
    IF channel = MuxTemperature
    THEN [err |-> NoError, value |-> TemperatureFromBytes(buffer)]
    ELSE VoltageFromBytes(buffer, input_range)

Return(t) ==
    LET r == Convert(args[t].channel.val, args[t].input_range.val,
                     receive_buffer[t])
    IN /\ pc[t] = "ret"
       /\ Goto(t, IF r.err = NoError THEN "done" ELSE "raised")
       /\ last' = BusOutcome("return", r.err, [NoIo EXCEPT !.result = r.value])
       /\ UNCHANGED <<regvars, scopes, adc, held, args, data_ready,
                      transmit_buffer, receive_buffer, cs, wire, codecvars>>

\* the caller has the result or the exception
Finish(t) ==
    /\ pc[t] \in {"done", "raised"}
    /\ Quiescent
    /\ Goto(t, "idle")
    /\ args' = [args EXCEPT ![t] = NoArgs]
    /\ data_ready' = [data_ready EXCEPT ![t] = FALSE]
    /\ transmit_buffer' = [transmit_buffer EXCEPT ![t] = NoBuffer]
    /\ receive_buffer' = [receive_buffer EXCEPT ![t] = NoBuffer]
    /\ last' = Outcome("finish", 0, NoKey, NoError, None, 0, {})
    /\ UNCHANGED <<regvars, scopes, adc, held, cs, wire, codecvars>>

\* the state after Ads1118(SCK, MOSI, MISO, SS) on an empty PinManager, in
\* an application that also has an analog input on the chip-select pin
AdsBuilt == AdsConstruct(EmptyRegistry, "SCK", "MOSI", "MISO", "SS")

AdsRegistry == CreateGeneralDevice(AdsBuilt.s, <<"SS">>, AnalogInType).s

InitAds ==
    /\ pins = AdsRegistry.pins
    /\ devices = AdsRegistry.devices
    /\ objs = AdsRegistry.objs
    /\ hw = AdsRegistry.hw
    /\ serial = AdsRegistry.serial
    /\ scopes = [d \in DOMAIN AdsRegistry.objs |-> 0]
    /\ last = Outcome("init", 0, NoKey, NoError, None, 0, {})
    /\ adc = AdsBuilt.adc
    /\ pc = [t \in Tasks |-> "idle"]
    /\ held = [t \in Tasks |-> <<>>]
    /\ args = [t \in Tasks |-> NoArgs]
    /\ data_ready = [t \in Tasks |-> FALSE]
    /\ transmit_buffer = [t \in Tasks |-> NoBuffer]
    /\ receive_buffer = [t \in Tasks |-> NoBuffer]
    /\ cs = TRUE
    /\ wire = 0
    /\ fn_in = NoInput
    /\ fn_out = NoOutput

\* the steps that are the same whatever the device answers
TakeSampleCommon(t) ==
    \/ ConfigEnterSpi(t)
    \/ ConfigEnterSs(t)
    \/ ConfigSelect(t)
    \/ Wake(t)
    \/ PollEnterDrdy(t)
    \/ PollEnterSs(t)
    \/ PollSelect(t)
    \/ ReadEnterSpi(t)
    \/ ReadEnterSs(t)
    \/ ReadSelect(t)
    \/ Return(t)
    \/ Finish(t)

TakeSampleStep(t) ==
    \/ TakeSampleCallOn(t, SampleArgs)
    \/ ConfigBody(t)
    \/ PollBody(t)
    \/ ReadBody(t)
    \/ TakeSampleCommon(t)

NextAds ==
    \/ DeviceEnter
    \/ DeviceExit
    \/ \E t \in Tasks : TakeSampleStep(t)

SpecAds == InitAds /\ [][NextAds]_vars

\* ---- take_sample of a driver that has the pins to itself ------------------
\* calls over more of the domain: both kinds of channel, an input range
\* with and without an LSB size, and arguments outside the domain
DriverArgs ==
    SampleArgs \cup
    { Py(PyInt(3), PyInt(2), PyInt(7)),
      Py(PyInt(MuxTemperature), PyInt(5), PyInt(3)),
      Py(PyInt(4), PyInt(6), PyInt(4)),
      Py(PyInt(4), PyInt(8), PyInt(4)),
      Py(PyInt(4), PyInt(1), PyInt(0 - 1)),
      Py(PyFloat(9), PyInt(1), PyInt(4)),
      Py(PyFloat(510), PyInt(1), PyInt(4)) }

\* answers of the device that differ from one another and from the zeros the
\* receive buffer starts with
DriverRxBytes == {<<64, 0>>, <<255, 224>>}

\* a clock of 1/32768 s resolution read twice or once within its first tick,
\* and a clock of nanosecond resolution; each runs past 30 ms
DriverClockTraces ==
    { <<0, 0, 30517, 30000000>>,
      <<0, 30517, 30000000>>,
      <<1000, 2000, 29999999, 30000000>> }

\* a device ready when the phase starts, 1500 ns into it, or never
DriverReadyTimes == {0, 1500, NeverReady}

DriverStep(t) ==
    \/ TakeSampleCallOn(t, DriverArgs)
    \/ WithBusBody(t, "cfg_body", "sleep", DriverRxBytes, wire)
    \/ PollBodyOn(t, DriverClockTraces, DriverReadyTimes)
    \/ WithBusBody(t, "rb_body", "ret", DriverRxBytes, wire)
    \/ TakeSampleCommon(t)

NextDriver == \E t \in Tasks : DriverStep(t)

SpecDriver == InitAds /\ [][NextDriver]_vars

\* ---- concurrent take_sample calls on one driver ---------------------------
\* one task more than the other specifications have
PairTasks == 1 .. (NumTasks + 1)

\* two calls that configure the ADC differently
PairArgs ==
    { Py(PyInt(4), PyInt(1), PyInt(4)),
      Py(PyInt(MuxTemperature), PyInt(1), PyInt(4)) }

InitPair ==
    /\ pins = AdsRegistry.pins
    /\ devices = AdsRegistry.devices
    /\ objs = AdsRegistry.objs
    /\ hw = AdsRegistry.hw
    /\ serial = AdsRegistry.serial
    /\ scopes = [d \in DOMAIN AdsRegistry.objs |-> 0]
    /\ last = Outcome("init", 0, NoKey, NoError, None, 0, {})
    /\ adc = AdsBuilt.adc
    /\ pc = [t \in PairTasks |-> "idle"]
    /\ held = [t \in PairTasks |-> <<>>]
    /\ args = [t \in PairTasks |-> NoArgs]
    /\ data_ready = [t \in PairTasks |-> FALSE]
    /\ transmit_buffer = [t \in PairTasks |-> NoBuffer]
    /\ receive_buffer = [t \in PairTasks |-> NoBuffer]
    /\ cs = TRUE
    /\ wire = 0
    /\ fn_in = NoInput
    /\ fn_out = NoOutput

\* the transfers are noted by the observer of the wire
PairStep(t) ==
    \/ TakeSampleCallOn(t, PairArgs)
    \/ WithBusBody(t, "cfg_body", "sleep", RxBytes, t)
    \/ PollBody(t)
    \/ WithBusBody(t, "rb_body", "ret", RxBytes, t)
    \/ TakeSampleCommon(t)

NextPair == \E t \in PairTasks : PairStep(t)

SpecPair == InitPair /\ [][NextPair]_vars

\* ---- the static methods of Ads1118 on their own ---------------------------
IntValues == ((0 - 1) .. 8) \cup {120, 254, 255, 256}

\* ints in and around the domain, the floats 3.0, 4.5 and 255.0, an object
PyValues ==
    {PyInt(n) : n \in IntValues} \cup {PyFloat(6), PyFloat(9), PyFloat(510),
                                       PyObject}

PyChannels == PyValues
PyRanges == PyValues \ {PyInt(120), PyInt(254), PyInt(256), PyFloat(510)}
PyRates == PyRanges

ParamInputs ==
    {CodecInput("params", Py(c, r, s), NoBuffer) :
        c \in PyChannels, r \in PyRanges, s \in PyRates}

HighBytes == 0 .. 255
LowBytes == {0, 1, 2, 3, 4, 224, 252, 255}

ByteInputs ==
    {CodecInput("bytes", NoArgs, <<b0, b1>>) : b0 \in HighBytes, b1 \in LowBytes}

VoltInputs ==
    {CodecInput("volts", Py(PyInt(0), PyInt(r), PyInt(0)), <<b0, b1>>) :
        r \in 0 .. 7, b0 \in HighBytes, b1 \in LowBytes}

CodecInputs == ParamInputs \cup ByteInputs \cup VoltInputs

InitCodec ==
    /\ pins = EmptyRegistry.pins
    /\ devices = EmptyRegistry.devices
    /\ objs = EmptyRegistry.objs
    /\ hw = EmptyRegistry.hw
    /\ serial = EmptyRegistry.serial
    /\ scopes = <<>>
    /\ last = Outcome("init", 0, NoKey, NoError, None, 0, {})
    /\ adc = NoAdc
    /\ pc = [t \in Tasks |-> "idle"]
    /\ held = [t \in Tasks |-> <<>>]
    /\ args = [t \in Tasks |-> NoArgs]
    /\ data_ready = [t \in Tasks |-> FALSE]
    /\ transmit_buffer = [t \in Tasks |-> NoBuffer]
    /\ receive_buffer = [t \in Tasks |-> NoBuffer]
    /\ cs = TRUE
    /\ wire = 0
    /\ fn_in \in CodecInputs
    /\ fn_out = NoOutput

Returns(out) ==
    /\ fn_out' = out
    /\ UNCHANGED <<regvars, scopes, last, adc, pc, held, args, data_ready,
                   transmit_buffer, receive_buffer, cs, wire, fn_in>>

\* Ads1118._check_sampling_params(channel, input_range, sample_rate)
CallCheckSamplingParams ==
    /\ fn_in.kind = "params"
    /\ Returns(CodecOutput("check",
                   IF CheckSamplingParams(fn_in.args.channel,
                                          fn_in.args.input_range,
                                          fn_in.args.sample_rate)
                   THEN NoError ELSE AssertionError,
                   <<>>))

\* Ads1118._build_config_register_bytearray on arguments that passed the check
CallBuildConfigRegisterBytearray ==
    /\ fn_in.kind = "params"
    /\ CheckSamplingParams(fn_in.args.channel, fn_in.args.input_range,
                           fn_in.args.sample_rate)
    /\ Returns(CodecOutput("build", NoError,
                   BuildConfigRegisterBytearray(fn_in.args.channel.val,
                                                fn_in.args.input_range.val,
                                                fn_in.args.sample_rate.val)))

\* Ads1118._int_from_two_bytes_signed_be(buffer)
CallIntFromTwoBytesSignedBe ==
    /\ fn_in.kind = "bytes"
    /\ Returns(CodecOutput("int", NoError,
                   <<IntFromTwoBytesSignedBe(fn_in.buffer)>>))

\* Ads1118._temperature_from_bytes(buffer)
CallTemperatureFromBytes ==
    /\ fn_in.kind = "bytes"
    /\ Returns(CodecOutput("temperature", NoError,
                   TemperatureFromBytes(fn_in.buffer)))

\* Ads1118._voltage_from_bytes(buffer, fsr)
CallVoltageFromBytes ==
    LET r == VoltageFromBytes(fn_in.buffer, fn_in.args.input_range.val)
    IN /\ fn_in.kind = "volts"
       /\ Returns(CodecOutput("voltage", r.err, r.value))

NextCodec ==
    \/ CallCheckSamplingParams
    \/ CallBuildConfigRegisterBytearray
    \/ CallIntFromTwoBytesSignedBe
    \/ CallTemperatureFromBytes
    \/ CallVoltageFromBytes

SpecCodec == InitCodec /\ [][NextCodec]_vars

\* ---- properties ---------------------------------------------------------
Running(d) == objs[d].instance # None

ActiveContexts(d) == objs[d].active_contexts

PinsOf(d) == Range(objs[d].managed_pins)

SharePin(a, b) == PinsOf(a) \cap PinsOf(b) # {}

\* the step is __enter__ of device d by application code
IsEnter(d) == last'.op = "enter" /\ last'.dev = d

\* no pin of b is held by a device with an open context
NoBusyHolder(b) ==
    \A p \in PinsOf(b) :
        pins[p].kind = "device" => ActiveContexts(pins[p].id) = 0

\* with-scopes of the tasks inside take_sample on device d
RECURSIVE HeldCount(_, _)
HeldCount(d, n) ==
    IF n = 0 THEN 0 ELSE Occurrences(held[n], d) + HeldCount(d, n - 1)

OpenScopes(d) == scopes[d] + HeldCount(d, NumTasks)

\* C1: while device A has active_contexts > 0, __enter__ of a different
\* device B that shares a pin with A raises RuntimeError, leaves A's
\* instance, A's active_contexts and the claimer of each pin of A as they
\* were, and leaves B not running.
C1_BusyDeviceBlocksEnter ==
    [][\A a \in DOMAIN objs : \A b \in DOMAIN objs :
          (a # b /\ IsEnter(b) /\ ActiveContexts(a) > 0 /\ SharePin(a, b))
          => /\ last'.err = ResourceBusy
             /\ objs'[a] = objs[a]
             /\ \A p \in PinsOf(a) : pins'[p] = pins[p]
             /\ objs'[b].instance = None]_vars

C1_Witness ==
    /\ last.op = "enter"
    /\ last.err = ResourceBusy
    /\ \E a \in DOMAIN objs :
          a # last.dev /\ ActiveContexts(a) > 0 /\ SharePin(a, last.dev)

\* C2: when A is running with active_contexts = 0, B # A shares a pin with A
\* and no pin of B is held by a busy device, __enter__ of B succeeds; after
\* it A is not running, B is running with active_contexts = 1, B is the
\* claimer of every pin of B, and B's instance is the one binding on them.
C2_IdleDeviceDisplaced ==
    [][\A a \in DOMAIN objs : \A b \in DOMAIN objs :
          (a # b /\ IsEnter(b) /\ Running(a) /\ ActiveContexts(a) = 0
             /\ SharePin(a, b) /\ NoBusyHolder(b))
          => /\ last'.err = NoError
             /\ objs'[a].instance = None
             /\ objs'[b].instance # None
             /\ objs'[b].active_contexts = 1
             /\ \A p \in PinsOf(b) :
                   pins'[p] = DeviceClaimer(b) /\ hw'[p] = 1]_vars

C2_Witness ==
    /\ last.op = "enter"
    /\ last.err = NoError
    /\ last.torn # {}
    /\ \A a \in last.torn : a # last.dev /\ SharePin(a, last.dev)
    /\ Running(last.dev)

\* C3: every registered pin has one claimer, a default claimer or a device;
\* a device is the claimer of a pin only if it is running and the pin is one
\* of its pins; a running device is the claimer of all its pins; so two
\* devices that share a pin are never both running.
C3_OneClaimerPerPin ==
    /\ \A p \in DOMAIN pins :
          /\ pins[p].kind \in {"default", "device"}
          /\ pins[p].kind = "device" =>
                /\ pins[p].id \in DOMAIN objs
                /\ Running(pins[p].id)
                /\ p \in PinsOf(pins[p].id)
    /\ \A d \in DOMAIN objs :
          Running(d) => \A p \in PinsOf(d) :
                            p \in DOMAIN pins /\ pins[p] = DeviceClaimer(d)
    /\ \A a \in DOMAIN objs : \A b \in DOMAIN objs :
          (a # b /\ SharePin(a, b)) => ~(Running(a) /\ Running(b))

C3_Witness ==
    \E a \in DOMAIN objs : \E b \in DOMAIN objs :
        /\ a # b
        /\ SharePin(a, b)
        /\ PinsOf(a) # PinsOf(b)
        /\ Running(a)
        /\ last.torn = {b}
        /\ \A p \in PinsOf(b) \ PinsOf(a) : pins[p] = DefaultClaimer(1)

\* C4: with scoped acquisitions, active_contexts of a device is never
\* negative, equals the number of with-scopes open on the device, and is
\* positive only if the device is running; a running device with
\* active_contexts = 0 is reachable (the witness).
C4_BusyImpliesRunning ==
    \A d \in DOMAIN objs :
        /\ ActiveContexts(d) >= 0
        /\ ActiveContexts(d) = OpenScopes(d)
        /\ ActiveContexts(d) > 0 => Running(d)

C4_Witness ==
    \E d \in DOMAIN objs : \E e \in DOMAIN objs :
        /\ Running(d) /\ ActiveContexts(d) = 0
        /\ ActiveContexts(e) = MaxContexts

\* C5: __exit__ only decrements active_contexts of its device: instance,
\* claimers, hardware bindings and the cache stay as they are; a running
\* device stops running only in a step that is __enter__ of a different
\* device sharing a pin with it.
C5_LazyTeardown ==
    [][/\ last'.op = "exit" =>
             /\ objs' = [objs EXCEPT ![last'.dev].active_contexts = @ - 1]
             /\ pins' = pins
             /\ hw' = hw
             /\ devices' = devices
       /\ \A d \in DOMAIN objs :
             (Running(d) /\ objs'[d].instance = None)
             => /\ last'.op = "enter"
                /\ last'.dev # d
                /\ SharePin(d, last'.dev)]_vars

C5_Witness ==
    /\ last.op = "exit"
    /\ Running(last.dev)
    /\ ActiveContexts(last.dev) = 0
    /\ \E b \in DOMAIN objs : b # last.dev /\ SharePin(b, last.dev)

\* C6: __enter__ on a running device succeeds, adds one to active_contexts
\* and returns the instance the device already has, without a call of the
\* producer; while active_contexts of a device is positive every __enter__
\* of a different device sharing a pin raises RuntimeError and the device
\* stays running; a device stops running only from active_contexts = 0.
C6_ReentrantEnter ==
    [][/\ \A d \in DOMAIN objs :
             (IsEnter(d) /\ Running(d))
             => /\ last'.err = NoError
                /\ last'.produced = 0
                /\ last'.ret = objs[d].instance
                /\ objs'[d].instance = objs[d].instance
                /\ objs'[d].active_contexts = objs[d].active_contexts + 1
       /\ \A a \in DOMAIN objs : \A b \in DOMAIN objs :
             (a # b /\ IsEnter(b) /\ ActiveContexts(a) > 0 /\ SharePin(a, b))
             => last'.err = ResourceBusy /\ objs'[a].instance = objs[a].instance
       /\ \A d \in DOMAIN objs :
             (Running(d) /\ objs'[d].instance = None)
             => ActiveContexts(d) = 0 /\ OpenScopes(d) = 0]_vars

C6_Witness ==
    /\ last.op = "enter"
    /\ last.err = NoError
    /\ last.produced = 0
    /\ ActiveContexts(last.dev) >= 2
    /\ last.ret = objs[last.dev].instance

\* C7: a creation call whose key is in the cache returns the cached device
\* and changes no device and no cache entry; a call with a new key returns a
\* new device that is not running and has active_contexts = 0; a cache entry
\* never changes, so two calls with the same pins and device type return the
\* same device.
C7_DeviceCaching ==
    [][/\ last'.op = "create" =>
             /\ last'.key \in DOMAIN devices' /\ devices'[last'.key] = last'.ret
             /\ last'.key \in DOMAIN devices =>
                   /\ last'.ret = devices[last'.key]
                   /\ objs' = objs
                   /\ devices' = devices
             /\ last'.key \notin DOMAIN devices =>
                   /\ last'.ret \notin DOMAIN objs
                   /\ DOMAIN objs' = DOMAIN objs \cup {last'.ret}
                   /\ objs'[last'.ret].instance = None
                   /\ objs'[last'.ret].active_contexts = 0
                   /\ \A d \in DOMAIN objs : objs'[d] = objs[d]
       /\ \A k \in DOMAIN devices :
             k \in DOMAIN devices' /\ devices'[k] = devices[k]]_vars

C7_Witness ==
    /\ last.op = "create"
    /\ Running(last.ret)
    /\ ActiveContexts(last.ret) > 0
    /\ devices[last.key] = last.ret

\* C8: every with-scope take_sample opens is closed on every way out of the
\* with statement: active_contexts of each device is the number of scopes
\* open on it, a task holds no scope wherever it is suspended, has returned
\* or has raised, and then, no other task running, active_contexts of the
\* SPI, chip-select and ready-pin devices is what application code outside
\* take_sample holds, as before the call.
C8_ScopesReleased ==
    /\ \A d \in DOMAIN objs : ActiveContexts(d) = OpenScopes(d)
    /\ \A t \in Tasks : pc[t] \in SuspendedAt => held[t] = <<>>
    /\ Quiescent =>
          \A d \in {adc.spi_bus, adc.drdy_gpio, adc.ss_gpio} :
              d \in DOMAIN objs => ActiveContexts(d) = scopes[d]

C8_Witness ==
    \E t \in Tasks :
        /\ pc[t] = "raised"
        /\ last.op \in {"cfg_ss", "poll_ss", "rb_ss"}
        /\ last.err = ResourceBusy
        /\ held[t] = <<>>
        /\ ActiveContexts(adc.spi_bus) = scopes[adc.spi_bus]
        /\ ActiveContexts(adc.drdy_gpio) = scopes[adc.drdy_gpio]

\* C9 as stated: a creation call changes no hardware binding on any pin.
C9_CreateTouchesNoHardware ==
    [][last'.op = "create" => hw' = hw]_vars

\* C9: a creation call changes no device instance, and on a pin registered
\* before the call neither the bindings nor the claimer; a pin the call
\* references for the first time gets its default claimer and, with it, one
\* digital I/O binding; no other pin is touched.
C9_CreateBindsOnlyNewPins ==
    [][last'.op = "create" =>
          /\ \A d \in DOMAIN objs : objs'[d] = objs[d]
          /\ \A p \in Pins :
                IF p \in DOMAIN pins
                THEN hw'[p] = hw[p] /\ pins'[p] = pins[p]
                ELSE IF p \in Range(last'.key.m_pins)
                THEN hw'[p] = hw[p] + 1 /\ pins'[p] = DefaultClaimer(1)
                ELSE hw'[p] = hw[p] /\ p \notin DOMAIN pins']_vars

C9_Witness ==
    /\ last.op = "create"
    /\ \E d \in DOMAIN objs : Running(d)
    /\ \E p \in PinsOf(last.ret) :
          /\ pins[p] = DefaultClaimer(1)
          /\ hw[p] = 1
          /\ \A e \in DOMAIN objs \ {last.ret} : p \notin PinsOf(e)

\* C10: every registered pin holds a live hardware binding: its claimer is a
\* default claimer with its digital I/O object or a running device.
C10_RegisteredPinsBound ==
    \A p \in DOMAIN pins :
        /\ hw[p] >= 1
        /\ pins[p].kind = "default" => pins[p].instance # None
        /\ pins[p].kind = "device" => Running(pins[p].id)

\* the domain of take_sample: the temperature channel 255 or an integer
\* channel 0..7, an integer range 0..7, an integer rate 0..7
InDomain(a) ==
    /\ a.channel.type = "int" /\ a.channel.val \in (0 .. 7) \cup {255}
    /\ a.input_range.type = "int" /\ a.input_range.val \in 0 .. 7
    /\ a.sample_rate.type = "int" /\ a.sample_rate.val \in 0 .. 7

\* C11: a take_sample call with a channel, range or rate outside the domain
\* ends in the same step with AssertionError: no __enter__ has run, no bus
\* transaction and no suspension has happened, the registry (use counts, pin
\* claimers, instances), the scopes held and the chip-select level are as
\* before, and the only thing that follows is the caller getting the exception
C11_InvalidCallFailsFirst ==
    [][\A t \in Tasks :
          /\ (pc[t] = "idle" /\ pc'[t] # "idle" /\ ~InDomain(args'[t]))
                => /\ pc'[t] = "raised"
                   /\ last'.op = "take_sample"
                   /\ last'.err = AssertionError
                   /\ last'.io = NoIo
                   /\ UNCHANGED <<regvars, scopes, held, cs, transmit_buffer,
                                  receive_buffer>>
          /\ (pc[t] = "raised" /\ ~InDomain(args[t]) /\ pc'[t] # pc[t])
                => pc'[t] = "idle"]_vars

C11_Witness ==
    \E t \in Tasks :
        /\ pc[t] = "raised"
        /\ last.op = "take_sample"
        /\ last.err = AssertionError
        /\ args[t] = Py(PyInt(4), PyInt(8), PyInt(4))
        /\ \E d \in DOMAIN objs : Running(d)

\* C12: _check_sampling_params accepts (channel, range, rate) exactly when it
\* is in the domain, and raises AssertionError for everything else
C12_ValidationDomain ==
    fn_out.fn = "check" =>
        /\ fn_out.err \in {NoError, AssertionError}
        /\ fn_out.err = NoError <=> InDomain(fn_in.args)

C12_Witness ==
    /\ fn_out.fn = "check"
    /\ fn_out.err = NoError
    /\ fn_in.args = Py(PyInt(255), PyInt(7), PyInt(0))

\* C13: for valid (channel, range, rate) the configuration word is
\* byte0 = 0x80 | ((channel mod 8) << 4) | (range << 1) | 1 and
\* byte1 = (rate << 5) | (0x10 for the temperature channel) | 0x0A, both in
\* 0..255; (4,1,4) gives C3 8A, (3,2,7) gives B5 EA, (0,0,0) gives 81 0A and
\* (255,5,3) gives FB 7A
C13_ConfigWord ==
    fn_out.fn = "build" =>
        LET c == fn_in.args.channel.val
            r == fn_in.args.input_range.val
            s == fn_in.args.sample_rate.val
            w == fn_out.value
        IN /\ w[1] = 128 + (c % 8) * 16 + r * 2 + 1
           /\ w[2] = s * 32 + (IF c = 255 THEN 16 ELSE 0) + 10
           /\ w[1] \in 0 .. 255 /\ w[2] \in 0 .. 255
           /\ (<<c, r, s>> = <<4, 1, 4>> => w = <<195, 138>>)
           /\ (<<c, r, s>> = <<3, 2, 7>> => w = <<181, 234>>)
           /\ (<<c, r, s>> = <<0, 0, 0>> => w = <<129, 10>>)
           /\ (<<c, r, s>> = <<255, 5, 3>> => w = <<251, 122>>)

C13_Witness ==
    /\ fn_out.fn = "build"
    /\ fn_in.args = Py(PyInt(255), PyInt(5), PyInt(3))
    /\ fn_out.value = <<251, 122>>

\* C14: a take_sample call with valid parameters that got its read-back
\* returns a reading: the return statement raises nothing
C14_ValidCallReturnsReading ==
    last.op = "return" => last.err = NoError /\ Len(last.io.result) = 2

\* the signed 16-bit big-endian value of two bytes
SignedRaw(buffer) ==
    IF buffer[1] < 128 THEN 256 * buffer[1] + buffer[2]
    ELSE 256 * buffer[1] + buffer[2] - 65536

\* C15: for two result bytes, temperature decoding returns floor(raw / 4)
\* thirty-seconds of a degree, raw being the signed big-endian value: the two
\* low bits do not matter; 40 00 gives 128, 3F FC gives 127.96875, EC 00
\* gives -40, FF E0 gives -0.25 and 00 00, 00 01, 00 02 give 0
C15_TemperatureDecoding ==
    fn_out.fn = "temperature" =>
        LET raw == SignedRaw(fn_in.buffer)
            v == fn_out.value
        IN /\ v[2] = 32
           /\ 4 * v[1] <= raw /\ raw < 4 * v[1] + 4
           /\ (fn_in.buffer = <<64, 0>> => v[1] = 128 * 32)
           /\ (fn_in.buffer = <<63, 252>> => v[1] = 4095)
           /\ (fn_in.buffer = <<236, 0>> => v[1] = (0 - 40) * 32)
           /\ (fn_in.buffer = <<255, 224>> => v[1] = 0 - 8)
           /\ (fn_in.buffer \in {<<0, 0>>, <<0, 1>>, <<0, 2>>} => v[1] = 0)

C15_Witness ==
    /\ fn_out.fn = "temperature"
    /\ fn_in.buffer = <<255, 255>>
    /\ fn_out.value = <<0 - 1, 32>>

\* the full scale of the six defined ranges, in microvolts
FullScaleMicrovolts == <<6144000, 4096000, 2048000, 1024000, 512000, 256000>>

\* C16: for the ranges 0..5 with full scale F and two result bytes, voltage
\* decoding returns raw * F / 2^15 volts, raw being the signed big-endian
\* value; so 7FFF gives F * (2^15 - 1) / 2^15 and 8000 gives -F
C16_VoltageDecoding ==
    (fn_out.fn = "voltage" /\ fn_in.args.input_range.val \in 0 .. 5) =>
        LET raw == SignedRaw(fn_in.buffer)
            v == fn_out.value
            \* F as a multiple of 1/v[2] volts
            f == FullScaleMicrovolts[fn_in.args.input_range.val + 1]
                 * (v[2] \div 1000000)
        IN /\ fn_out.err = NoError
           /\ v[2] % 1000000 = 0
           /\ f % 32768 = 0
           /\ v[1] = raw * (f \div 32768)
           /\ (fn_in.buffer = <<127, 255>> => v[1] = f - (f \div 32768))
           /\ (fn_in.buffer = <<128, 0>> => v[1] = 0 - f)

C16_Witness ==
    /\ fn_out.fn = "voltage"
    /\ fn_in.args.input_range.val = 5
    /\ fn_in.buffer = <<128, 0>>
    /\ fn_out.value = <<0 - 16384000, 64000000>>

\* the configuration word of a call, start bit set
ConfigWord(a) ==
    << 128 + (a.channel.val % 8) * 16 + a.input_range.val * 2 + 1,
       a.sample_rate.val * 32 + (IF a.channel.val = 255 THEN 16 ELSE 0) + 10 >>

\* where a call is once a poll phase has seen ready
AfterReady == {"rb_spi", "rb_ss", "rb_sel", "rb_body", "ret", "done"}

\* C17: a poll phase that ends without ready and without a hardware exception
\* raises nothing and returns nothing: the call is back where its first
\* configuration transaction started, with the same word to send, no scope
\* held and nothing that counts the retries; a call gets past the loop only
\* by a poll phase that saw ready
C17_TimeoutRetries ==
    [][\A t \in Tasks :
          /\ (pc[t] = "poll_body" /\ pc'[t] # pc[t] /\ last'.err = NoError
              /\ ~data_ready'[t])
                => /\ pc'[t] = "cfg_spi"
                   /\ transmit_buffer'[t] = ConfigWord(args[t])
                   /\ held'[t] = <<>>
                   /\ args'[t] = args[t]
          /\ (pc'[t] \in AfterReady /\ pc[t] \notin AfterReady)
                => pc[t] = "poll_body" /\ data_ready'[t]]_vars

C17_Witness ==
    \E t \in Tasks :
        /\ pc[t] = "cfg_spi"
        /\ last.op = "poll_body"
        /\ last.err = NoError
        /\ last.io.ready_at = NeverReady
        /\ receive_buffer[t] # <<0, 0>>

\* the order of the steps of a call
StepOrder ==
    { <<"idle", "cfg_spi">>, <<"cfg_spi", "cfg_ss">>, <<"cfg_ss", "cfg_sel">>,
      <<"cfg_sel", "cfg_body">>, <<"cfg_body", "sleep">>,
      <<"sleep", "poll_drdy">>, <<"poll_drdy", "poll_ss">>,
      <<"poll_ss", "poll_sel">>, <<"poll_sel", "poll_body">>,
      <<"poll_body", "cfg_spi">>, <<"poll_body", "rb_spi">>,
      <<"rb_spi", "rb_ss">>, <<"rb_ss", "rb_sel">>, <<"rb_sel", "rb_body">>,
      <<"rb_body", "ret">>, <<"ret", "done">>, <<"done", "idle">>,
      <<"raised", "idle">> }

\* C18: a call that is not ended by an exception goes through configuration
\* transaction (start bit set), wait, poll phase, in this order; after a poll
\* phase without ready it sends the configuration again, with chip-select
\* high by then; after a poll phase with ready comes one read-back
\* transaction and then the return; no read-back comes before a poll phase
\* that saw ready
C18_StepOrder ==
    [][\A t \in Tasks :
          /\ pc'[t] # pc[t]
                => pc'[t] = "raised" \/ <<pc[t], pc'[t]>> \in StepOrder
          /\ (pc[t] = "cfg_body" /\ pc'[t] = "sleep")
                => last'.io.tx[1] >= 128 /\ cs'
          /\ (pc[t] = "poll_body" /\ pc'[t] = "cfg_spi")
                => ~data_ready'[t] /\ cs'
          /\ (pc[t] = "poll_body" /\ pc'[t] = "rb_spi") => data_ready'[t]
          /\ pc'[t] \in AfterReady => data_ready'[t]
          /\ (pc[t] = "rb_body" /\ pc'[t] = "ret")
                => last'.io.tx[1] < 128 /\ cs']_vars

C18_Witness ==
    \E t \in Tasks :
        /\ pc[t] = "ret"
        /\ last.op = "rb_body"
        /\ data_ready[t]
        /\ cs
        /\ last.io.tx[1] < 128

\* C19: a poll phase in which the ready line is low at one of the clock
\* readings taken less than 30,000,000 ns into the phase sees ready, and the
\* read-back follows
C19_ReadyWithinWindowSeen ==
    (/\ last.op = "poll_body"
     /\ last.err = NoError
     /\ \E k \in DOMAIN last.io.ticks :
            /\ last.io.ticks[k] < 30000000
            /\ DrdyLow(last.io.ready_at, last.io.ticks[k]))
        => \E t \in Tasks : pc[t] = "rb_spi" /\ data_ready[t]

\* C20: every configuration transaction sends the configuration word of the
\* call with bit 7 of byte 0 set, the read-back transaction sends it with
\* that bit cleared and byte 1 as it is, and the value returned is decoded
\* from the bytes the read-back transaction received
C20_ReadBackWord ==
    [][\A t \in Tasks :
          /\ (pc[t] = "cfg_body" /\ pc'[t] # pc[t])
                => /\ last'.io.tx = ConfigWord(args[t])
                   /\ last'.io.tx[1] >= 128
          /\ (pc[t] = "rb_body" /\ pc'[t] # pc[t])
                => /\ last'.io.tx = << ConfigWord(args[t])[1] - 128,
                                      ConfigWord(args[t])[2] >>
                   /\ pc'[t] = "ret" => receive_buffer'[t] = last'.io.rx
          /\ (pc[t] = "ret" /\ pc'[t] = "done")
                => last'.io.result =
                       IF args[t].channel.val = 255
                       THEN << (SignedRaw(receive_buffer[t])
                                - (SignedRaw(receive_buffer[t]) % 4)) \div 4,
                               32 >>
                       ELSE << SignedRaw(receive_buffer[t])
                               * (FullScaleMicrovolts[
                                      args[t].input_range.val + 1] \div 512),
                               64000000 >>]_vars

C20_Witness ==
    \E t \in Tasks :
        /\ pc[t] = "done"
        /\ last.op = "return"
        /\ receive_buffer[t] = <<255, 224>>
        /\ args[t].channel.val = 255
        /\ last.io.result = <<0 - 8, 32>>

\* C21: take_sample suspends only in the conversion-delay wait; whenever a
\* call is suspended there and control is with the event loop (every task
\* suspended), no call holds an open with-scope, the active_contexts of the
\* SPI, chip-select and ready-pin devices are as before the calls, and
\* chip-select is deasserted, so that no other task steps between
\* chip-select being asserted and being deasserted.
C21_SuspendedReleased ==
    (Quiescent /\ \E t \in DOMAIN pc : pc[t] = "sleep")
        => /\ \A t \in DOMAIN pc : held[t] = <<>>
           /\ \A d \in {adc.spi_bus, adc.ss_gpio, adc.drdy_gpio} :
                  ActiveContexts(d) = 0
           /\ cs = TRUE

\* C22: _reclaim() on a device with active_contexts # 0 raises RuntimeError
\* and changes nothing (instance, active_contexts and the claimer of every
\* pin as before); on a running device with active_contexts = 0 it
\* deinitialises the instance, sets it to None and gives every pin of the
\* device a fresh _DefaultPinClaimer, which holds a binding of its own and
\* is not busy.
C22_Reclaim ==
    [][\A d \in DOMAIN objs :
          (last'.op = "reclaim" /\ last'.dev = d) =>
              /\ ActiveContexts(d) # 0 =>
                     /\ last'.err = ResourceBusy
                     /\ UNCHANGED <<pins, objs, hw>>
              /\ (ActiveContexts(d) = 0 /\ Running(d)) =>
                     /\ last'.err = NoError
                     /\ last'.torn = {d}
                     /\ objs'[d].instance = None
                     /\ objs'[d].active_contexts = 0
                     /\ \A p \in PinsOf(d) :
                            /\ pins'[p] = DefaultClaimer(1)
                            /\ hw'[p] = hw[p]
                     /\ \A p \in DOMAIN pins \ PinsOf(d) :
                            pins'[p] = pins[p] /\ hw'[p] = hw[p]]_vars

\* _reclaim() has torn down an idle device that has two pins while
\* another device is busy
C22_Witness ==
    /\ last.op = "reclaim"
    /\ last.torn = {last.dev}
    /\ Len(objs[last.dev].managed_pins) = 2
    /\ \E e \in DOMAIN objs : objs[e].active_contexts > 0

\* C23: for every pair of bytes b0, b1 the raw decoding is the
\* 16-bit big-endian two's-complement value: 256*b0 + b1 when b0 < 128 and
\* 256*b0 + b1 - 65536 otherwise; it lies in -32768 .. 32767 and is negative
\* exactly when bit 7 of b0 is set.
C23_RawDecoding ==
    fn_out.fn = "int" =>
        LET b0 == fn_in.buffer[1]
            b1 == fn_in.buffer[2]
            raw == fn_out.value[1]
        IN /\ b0 < 128 => raw = 256 * b0 + b1
           /\ b0 >= 128 => raw = 256 * b0 + b1 - 65536
           /\ raw \in (0 - 32768) .. 32767
           /\ raw < 0 <=> (b0 \div 128) % 2 = 1

\* 80 00 has been decoded to -32768
C23_Witness ==
    /\ fn_out.fn = "int"
    /\ fn_in.buffer = <<128, 0>>
    /\ fn_out.value = <<0 - 32768>>

\* C24: an __enter__ that raises RuntimeError is atomic: no device has been
\* torn down, no default claimer has been deinitialised and no pin has
\* changed its claimer; device objects, pin claimers and hardware bindings
\* are all as before the call.
C24_FailedEnterAtomic ==
    [][\A d \in DOMAIN objs :
          (IsEnter(d) /\ last'.err = ResourceBusy)
              => /\ last'.torn = {}
                 /\ UNCHANGED <<pins, objs, hw>>]_vars

\* C25: whenever a hardware object is constructed on a pin (by a device's
\* producer in __enter__, by a new _DefaultPinClaimer at pin registration
\* or in _reclaim()), no other live object exists on that pin at that
\* moment; so each pin carries at most one live hardware object in every
\* state, with devices whose pin lists overlap without being equal too.
C25_OneBindingPerPin ==
    /\ last.peak <= 1
    /\ \A p \in Pins : hw[p] <= 1

\* __enter__ of a device has torn down an idle device that has a pin more:
\* the producer has bound the shared pins, a new default claimer the other
C25_Witness ==
    /\ last.op = "enter"
    /\ last.produced = 1
    /\ last.peak = 1
    /\ \E e \in last.torn :
           /\ PinsOf(last.dev) \subseteq PinsOf(e)
           /\ \E p \in PinsOf(e) \ PinsOf(last.dev) :
                  pins[p] = DefaultClaimer(1) /\ hw[p] = 1
    /\ \A p \in PinsOf(last.dev) :
           pins[p] = DeviceClaimer(last.dev) /\ hw[p] = 1

\* C26: cooperative tasks running take_sample concurrently on one driver,
\* interleaved only at its suspension point, never get RuntimeError: every
\* __enter__ of take_sample, the SPI bus and the ready pin taking MISO from
\* each other in turn included, succeeds and finds every other device on
\* its pins with active_contexts = 0.
C26_NoResourceBusy ==
    [][last'.op \in {"cfg_spi", "cfg_ss", "poll_drdy", "poll_ss", "rb_spi",
                     "rb_ss"} =>
          /\ last'.err = NoError
          /\ \A e \in DOMAIN objs \ {last'.dev} :
                 SharePin(e, last'.dev) => ActiveContexts(e) = 0]_vars

\* with another call suspended in its conversion delay, a call has entered
\* the ready pin, which has torn down the SPI bus the other call had used
C26_Witness ==
    /\ last.op = "poll_drdy"
    /\ last.err = NoError
    /\ last.dev = adc.drdy_gpio
    /\ last.produced = 1
    /\ last.torn = {adc.spi_bus}
    /\ \E t \in DOMAIN pc : \E u \in DOMAIN pc :
           /\ pc[t] = "poll_ss"
           /\ pc[u] = "sleep"
           /\ wire = u

\* C27: when two tasks run take_sample concurrently on the same ADC, no bus
\* transaction of the other task comes between a task's last configuration
\* transaction and its read-back: at the read-back the bytes the ADC
\* received last are this task's own, so the result it reads was produced
\* by the configuration it sent itself.
C27_ReadsOwnConversion ==
    [][\A t \in DOMAIN pc :
          (pc[t] = "rb_body" /\ pc'[t] = "ret") => wire = t]_vars

\* C28: a poll phase during all of which the device holds its ready line
\* asserted reads the line at least once and marks ready, so that the
\* read-back follows with no retry of the configuration.
C28_ReadyThroughoutSeen ==
    (/\ last.op = "poll_body"
     /\ last.err = NoError
     /\ last.io.ready_at = 0)
        => /\ last.io.reads >= 1
           /\ \E t \in DOMAIN pc : pc[t] = "rb_spi" /\ data_ready[t]

====
